---- MODULE Spec2Model ----
(***************************************************************************)
(* Model of the Myfxbook API route (src/src/app/api/myfxbook/route.ts):    *)
(* the module-level session cache, login(), getAccounts(), and the GET and *)
(* DELETE handlers.  Handlers run on one event loop: a step of the model   *)
(* is the code a handler runs between two awaits on the network.           *)
(***************************************************************************)
EXTENDS Integers, Sequences, FiniteSets, TLC

(* ---------------------------------------------------------------- bounds *)
\* Number of GET handlers that may be running at the same time.
NumCalls == 2
\* Number of session credentials the upstream issues in one run.
MaxSessions == 3

\* The GET handlers.  They run the same code; the model keeps the history
\* and the response of one of them, Observed, and lets the others run beside
\* it.  Alone is the frame of a login() that is called on its own.
Calls == 1..NumCalls
Observed == 1
Alone == 0
Frames == Calls \cup {Alone}

(* ------------------------------------------------------------- JS values *)
\* null / undefined, kept apart from every string the upstream can send.
NULL == "null"
UNDEFINED == "undefined"
\* The credentials the upstream issues: "s1", "s2", ... in order of issue.
Token(n) == "s" \o ToString(n)
Tokens == {Token(n) : n \in 1..MaxSessions}
\* JavaScript truthiness of a string-or-null/undefined value.
Truthy(v) == v # NULL /\ v # UNDEFINED /\ v # ""

(* -------------------------------------------------------------- messages *)
\* Error messages are sequences of characters, so that toLowerCase() and
\* includes() are computed and not assumed.
MsgNotConfigured == <<"M","y","f","x","b","o","o","k"," ","c","r","e","d","e","n","t","i","a","l","s"," ","n","o","t"," ","c","o","n","f","i","g","u","r","e","d","."," ","C","h","e","c","k"," ",".","e","n","v",".","l","o","c","a","l"," ","f","i","l","e",".">>
MsgLoginFailed == <<"L","o","g","i","n"," ","f","a","i","l","e","d">>
MsgFetchAccountsFailed == <<"F","a","i","l","e","d"," ","t","o"," ","f","e","t","c","h"," ","a","c","c","o","u","n","t","s">>
\* What the upstream and the runtime can say.
MsgFetchFailed == <<"f","e","t","c","h"," ","f","a","i","l","e","d">>
MsgNotJson == <<"U","n","e","x","p","e","c","t","e","d"," ","t","o","k","e","n"," ","'","<","'">>
MsgSessionInvalid == <<"S","e","s","s","i","o","n"," ","i","s"," ","i","n","v","a","l","i","d">>
MsgSessionUpper == <<"I","N","V","A","L","I","D"," ","S","E","S","S","I","O","N",".">>
MsgDenied == <<"A","c","c","e","s","s"," ","d","e","n","i","e","d">>
MsgEmpty == <<>>
\* The message of DELETE's response.
MsgCacheCleared == <<"S","e","s","s","i","o","n"," ","c","a","c","h","e"," ","c","l","e","a","r","e","d">>

SessionWord == <<"s","e","s","s","i","o","n">>

UpperCase == <<"A","B","C","D","E","F","G","H","I","J","K","L","M","N","O","P","Q","R","S","T","U","V","W","X","Y","Z">>
LowerCase == <<"a","b","c","d","e","f","g","h","i","j","k","l","m","n","o","p","q","r","s","t","u","v","w","x","y","z">>

\* String.prototype.toLowerCase on one character, then on a message.
LowerChar(c) ==
  IF \E i \in 1..Len(UpperCase) : UpperCase[i] = c
  THEN LowerCase[CHOOSE i \in 1..Len(UpperCase) : UpperCase[i] = c]
  ELSE c
toLowerCase(m) == [i \in 1..Len(m) |-> LowerChar(m[i])]
\* String.prototype.includes
includes(m, w) ==
  \E i \in 1..(Len(m) - Len(w) + 1) : SubSeq(m, i, i + Len(w) - 1) = w
\* The messages an Error can carry in the model.
Messages ==
  {MsgNotConfigured, MsgLoginFailed, MsgFetchAccountsFailed, MsgFetchFailed,
   MsgNotJson, MsgSessionInvalid, MsgSessionUpper, MsgDenied, MsgEmpty}

\* errorMsg.toLowerCase().includes('session'), computed once per message.
MentionsSessionOf == [m \in Messages |-> includes(toLowerCase(m), SessionWord)]

\* The test of the inner catch block of GET.
MentionsSession(m) == MentionsSessionOf[m]

\* Mutant: an empty message is passed on as it is.
OrElse_NoDefault(m, d) == m

\* a || b on messages
OrElse(m, d) == IF m # MsgEmpty THEN m ELSE d


(* -------------------------------------------------------------- accounts *)
\* One entry of the upstream's account list (interface MyfxbookAccount).
MyfxbookAccount(i) ==
  [id |-> i, name |-> "acc" \o ToString(i), accountId |-> 1000 + i,
   gain |-> 10 + i, absGain |-> 20 + i, daily |-> 30 + i, monthly |-> 40 + i,
   withdrawals |-> 50 + i, deposits |-> 60 + i, interest |-> 70 + i,
   profit |-> 80 + i, balance |-> 90 + i, drawdown |-> 100 + i,
   equity |-> 110 + i, equityPercent |-> 120 + i, demo |-> (i = 1),
   lastUpdateDate |-> "upd" \o ToString(i), creationDate |-> "cre" \o ToString(i),
   firstTradeDate |-> "ftd" \o ToString(i), currency |-> "USD",
   profitFactor |-> 130 + i, pips |-> 140 + i]

\* Mutant: the upstream's entry is passed on whole.
ExposedAccount_Whole(account) == account

\* The object GET builds for one account.
ExposedAccount(account) ==
  [id |-> account.id, name |-> account.name, accountId |-> account.accountId,
   balance |-> account.balance, equity |-> account.equity,
   profit |-> account.profit, gain |-> account.gain, daily |-> account.daily,
   monthly |-> account.monthly, drawdown |-> account.drawdown,
   currency |-> account.currency, demo |-> account.demo,
   lastUpdateDate |-> account.lastUpdateDate]

\* accounts.map((account) => ({...}))
MapAccounts(accounts) == [i \in 1..Len(accounts) |-> ExposedAccount(accounts[i])]

\* The account lists the upstream answers with.
AccountLists == { <<>>, <<MyfxbookAccount(2), MyfxbookAccount(1)>> }

(* ------------------------------------------------------------- responses *)
\* What a network call ends in.  kind is "payload" (a JSON object),
\* "challenge" (a bot-mitigation HTML page), "malformed" (any other body that
\* is not JSON) or "transport" (the fetch itself rejects).
Response(kind, error, message, sess, hasAccounts, accounts) ==
  [kind |-> kind, error |-> error, message |-> message, session |-> sess,
   hasAccounts |-> hasAccounts, accounts |-> accounts]
NoResponse == Response("none", FALSE, MsgEmpty, UNDEFINED, FALSE, <<>>)
Challenge == Response("challenge", FALSE, MsgEmpty, UNDEFINED, FALSE, <<>>)
Malformed == Response("malformed", FALSE, MsgEmpty, UNDEFINED, FALSE, <<>>)
TransportFailure == Response("transport", FALSE, MsgEmpty, UNDEFINED, FALSE, <<>>)
\* A request the upstream never completes: the promise of the fetch stays
\* pending, as the route passes neither a signal nor a timeout to it.
Hung == Response("hung", FALSE, MsgEmpty, UNDEFINED, FALSE, <<>>)
LoginPayload(error, message, sess) ==
  Response("payload", error, message, sess, FALSE, <<>>)
AccountsPayload(error, message, hasAccounts, accounts) ==
  Response("payload", error, message, UNDEFINED, hasAccounts, accounts)

\* The answers to login.json that carry no usable credential.
LoginRefusals ==
  {LoginPayload(FALSE, MsgEmpty, ""), LoginPayload(FALSE, MsgEmpty, UNDEFINED)}
  \cup {LoginPayload(TRUE, m, UNDEFINED) : m \in {MsgEmpty, MsgSessionInvalid}}
  \cup {LoginPayload(TRUE, MsgDenied, "refused")}
  \cup {Challenge, Malformed, TransportFailure}

\* The answer to login.json that carries the n-th credential.
LoginGrant(n) == LoginPayload(FALSE, MsgEmpty, Token(n))

\* The answers to get-my-accounts.json.
AccountsResponses ==
  {AccountsPayload(FALSE, MsgEmpty, TRUE, l) : l \in AccountLists}
  \cup {AccountsPayload(FALSE, MsgEmpty, FALSE, <<>>)}
  \cup {AccountsPayload(TRUE, m, FALSE, <<>>) :
          m \in {MsgEmpty, MsgSessionInvalid, MsgSessionUpper, MsgDenied}}
  \cup {Challenge, Malformed, TransportFailure}

\* The message of the Error that proxyFetch or response.json() throws.
ThrownMessage(r) == IF r.kind = "transport" THEN MsgFetchFailed ELSE MsgNotJson

(* ----------------------------------------------------------------- state *)
VARIABLES
  cachedSession,  \* the module-level cache: a non-empty string or NULL
  email,          \* process.env.MYFXBOOK_EMAIL
  password,       \* process.env.MYFXBOOK_PASSWORD
  httpsProxy,     \* process.env.HTTPS_PROXY
  httpProxy,      \* process.env.HTTP_PROXY
  call,           \* call[p]: the frame of handler p
  issued,         \* upstream: how many credentials it has issued
  twin            \* a second run of the route, beside the first (twin runs)

vars ==
  <<cachedSession, email, password, httpsProxy, httpProxy, call, issued, twin>>

(* ------------------------------------------------------------- transport *)
\* Mutant: only HTTPS_PROXY is read.
proxyUrl_HttpsOnly == httpsProxy

\* const proxyUrl = process.env.HTTPS_PROXY || process.env.HTTP_PROXY
proxyUrl == IF Truthy(httpsProxy) THEN httpsProxy ELSE httpProxy

\* const proxyAgent = proxyUrl ? new ProxyAgent(proxyUrl) : undefined
proxyAgent == IF Truthy(proxyUrl) THEN "ProxyAgent" ELSE UNDEFINED

\* An outbound request: the endpoint, the session parameter of its URL and
\* the transport it is sent through.
Request(path, sess, via) == [path |-> path, session |-> sess, via |-> via]
NoRequest == Request("", NULL, "none")

\* The URL of the login: the credential parameter plays no part in it.
loginUrl == Request("/login.json", NULL, "none")

\* Mutant: the session is escaped once more on its way into the URL.
accountsUrl_Escaped(session) ==
  Request("/get-my-accounts.json", "escaped(" \o session \o ")", "none")

\* The URL of the accounts fetch: the session is put in as it is.
accountsUrl(session) == Request("/get-my-accounts.json", session, "none")

\* proxyFetch(url, options): undici's fetch with the proxy agent as dispatcher
\* when there is one, the runtime's fetch otherwise.
proxyFetch(url) ==
  [url EXCEPT !.via = IF Truthy(proxyAgent) THEN "proxy" ELSE "direct"]

\* new Date().toISOString(): the value of the clock is not modelled.
Timestamp == "toISOString"

\* The result a handler returns: NextResponse.json(body, {status}), the
\* properties of the body and the status side by side.  NoResult is the
\* result of a handler that has not responded.
NoResult == [success |-> FALSE, status |-> 0]
Success(accounts) ==
  [success |-> TRUE, accounts |-> accounts, timestamp |-> Timestamp,
   status |-> 200]
Failure(errorMessage) ==
  [success |-> FALSE, error |-> errorMessage, timestamp |-> Timestamp,
   status |-> 500]

\* What a call of login() or getAccounts() comes to at the point the model
\* looks at it: it returns a value, it throws an Error, or it awaits the
\* network.  cache is the value it leaves in cachedSession.
Returns(sess, accounts, cache) ==
  [kind |-> "return", session |-> sess, accounts |-> accounts,
   message |-> MsgEmpty, cache |-> cache]
Throws(message, cache) ==
  [kind |-> "throw", session |-> NULL, accounts |-> <<>>,
   message |-> message, cache |-> cache]
Awaits(cache) ==
  [kind |-> "await", session |-> NULL, accounts |-> <<>>,
   message |-> MsgEmpty, cache |-> cache]

\* The record of one finished call of login(forceNew) or getAccounts(sent):
\* the cache when it was entered, whether it called proxyFetch, the answer it
\* got, how it ended (out) and the cache when it ended.
Finished(op, forceNew, sent, before, network, answer, out) ==
  [op |-> op, forceNew |-> forceNew, sent |-> sent, before |-> before,
   network |-> network, request |-> NoRequest, answer |-> answer,
   kind |-> out.kind,
   session |-> out.session, accounts |-> out.accounts,
   message |-> out.message, after |-> out.cache]

\* The frame of a handler that is not running.  session is GET's local
\* variable; request is the request in flight; resp is the login answer that
\* has arrived and is not yet processed; forceNew and entry are the argument of the login() in progress
\* and the cache at its entry; fetchCalls counts the handler's fetches of the
\* accounts.  An observed frame also keeps loginCalls, the count of its login
\* network calls, log, the records of its finished calls of login() and
\* getAccounts(), and result, its response.  overtaken tells that a DELETE
\* has returned while the login() in progress, or the last one, was awaiting
\* its answer; it is kept only where DELETE is followed that closely
\* (DELETE_overtaking).
IdleCall(observed) ==
  [pc |-> "idle", observed |-> observed, session |-> NULL,
   request |-> NoRequest, resp |-> NoResponse,
   forceNew |-> FALSE, entry |-> NULL, overtaken |-> FALSE,
   result |-> NoResult, loginCalls |-> 0, fetchCalls |-> 0, log |-> <<>>]

\* The frame f with one more finished call on record, with the request the
\* call has sent when it made a network call.
Logged(f, rec) ==
  IF f.observed
  THEN [f EXCEPT !.log = Append(@, [rec EXCEPT !.request =
                                      IF rec.network THEN f.request ELSE @])]
  ELSE f

\* The frame of a handler that has responded.
Responded(f, result) ==
  IF f.observed
  THEN [f EXCEPT !.pc = "done", !.request = NoRequest, !.resp = NoResponse,
                 !.result = result]
  ELSE [IdleCall(FALSE) EXCEPT !.pc = "done", !.fetchCalls = f.fetchCalls]

EnvValues == {UNDEFINED, "", "set"}

\* No second run.
NoTwin == NULL

\* The second run before anything has happened in it: its cache, the frames
\* of its handlers and the response of its last DELETE.
LoadedTwin ==
  [cachedSession |-> NULL,
   call |-> [p \in Calls |-> IdleCall(p = Observed)],
   invalidated |-> NoResult]

\* The module is loaded: the cache is empty and no handler runs.
Loaded ==
  /\ cachedSession = NULL
  /\ email \in EnvValues
  /\ password \in EnvValues
  /\ call = [p \in Frames |-> IdleCall(p \in {Observed, Alone})]
  /\ issued = 0

\* A deployment without a proxy: every request is sent directly.
Init ==
  /\ Loaded
  /\ httpsProxy = UNDEFINED
  /\ httpProxy = UNDEFINED
  /\ twin = NoTwin

\* A deployment with or without a proxy endpoint in either variable.
InitTransport ==
  /\ Loaded
  /\ httpsProxy \in EnvValues
  /\ httpProxy \in EnvValues
  /\ twin = NoTwin

\* Two runs of a deployment without a proxy.
InitTwin ==
  /\ Loaded
  /\ httpsProxy = UNDEFINED
  /\ httpProxy = UNDEFINED
  /\ twin = LoadedTwin

(* ----------------------------------------------------------------- login *)
\* Mutant: the cache is never consulted.
login_enter_NoCache(forceNew, cache) ==
  IF ~Truthy(email) \/ ~Truthy(password)
  THEN Throws(MsgNotConfigured, cache)
  ELSE Awaits(cache)

\* Mutant: a cached credential is returned even when forceNew is set.
login_enter_IgnoresForce(forceNew, cache) ==
  IF Truthy(cache)
  THEN Returns(cache, <<>>, cache)
  ELSE IF ~Truthy(email) \/ ~Truthy(password)
       THEN Throws(MsgNotConfigured, cache)
       ELSE Awaits(cache)

\* Mutant: only the e-mail is required.
login_enter_EmailOnly(forceNew, cache) ==
  IF ~forceNew /\ Truthy(cache)
  THEN Returns(cache, <<>>, cache)
  ELSE IF ~Truthy(email)
       THEN Throws(MsgNotConfigured, cache)
       ELSE Awaits(cache)

\* login(forceNew) from its entry to the proxyFetch of login.json.
login_enter(forceNew, cache) ==
  IF ~forceNew /\ Truthy(cache)
  THEN Returns(cache, <<>>, cache)
  ELSE IF ~Truthy(email) \/ ~Truthy(password)
       THEN Throws(MsgNotConfigured, cache)
       ELSE Awaits(cache)

\* Mutant: a refused login caches the session field of its answer.
login_resume_CachesRefused(r, cache) ==
  IF r.kind # "payload"
  THEN Throws(ThrownMessage(r), cache)
  ELSE IF r.error \/ ~Truthy(r.session)
       THEN Throws(OrElse(r.message, MsgLoginFailed),
                   IF Truthy(r.session) THEN r.session ELSE NULL)
       ELSE Returns(r.session, <<>>, r.session)

\* Mutant: a login returns its credential and does not cache it.
login_resume_ReturnsOnly(r, cache) ==
  IF r.kind # "payload"
  THEN Throws(ThrownMessage(r), cache)
  ELSE IF r.error \/ ~Truthy(r.session)
       THEN Throws(OrElse(r.message, MsgLoginFailed), NULL)
       ELSE Returns(r.session, <<>>, cache)

\* Mutant: a refused login leaves the cache as it is.
login_resume_KeepsCache(r, cache) ==
  IF r.kind # "payload"
  THEN Throws(ThrownMessage(r), cache)
  ELSE IF r.error \/ ~Truthy(r.session)
       THEN Throws(OrElse(r.message, MsgLoginFailed), cache)
       ELSE Returns(r.session, <<>>, r.session)

\* login() from the answer of the network to its return or throw.
login_resume(r, cache) ==
  IF r.kind # "payload"
  THEN Throws(ThrownMessage(r), cache)
  ELSE IF r.error \/ ~Truthy(r.session)
       THEN Throws(OrElse(r.message, MsgLoginFailed), NULL)
       ELSE Returns(r.session, <<>>, r.session)

(* ----------------------------------------------------------- getAccounts *)
\* Mutant: an empty account list is an error.
getAccounts_resume_EmptyIsError(r) ==
  IF r.kind # "payload"
  THEN Throws(ThrownMessage(r), NULL)
  ELSE IF r.error \/ r.accounts = <<>>
       THEN Throws(OrElse(r.message, MsgFetchAccountsFailed), NULL)
       ELSE Returns(NULL, r.accounts, NULL)

\* Mutant: a fetch that cannot be read is taken for an empty account list.
getAccounts_resume_Swallows(r) ==
  IF r.kind # "payload"
  THEN Returns(NULL, <<>>, NULL)
  ELSE IF r.error
       THEN Throws(OrElse(r.message, MsgFetchAccountsFailed), NULL)
       ELSE Returns(NULL, IF r.hasAccounts THEN r.accounts ELSE <<>>, NULL)

\* getAccounts(session) from the answer of the network to its return or throw.
\* It does not touch the cache: the records of its calls carry NULL there.
getAccounts_resume(r) ==
  IF r.kind # "payload"
  THEN Throws(ThrownMessage(r), NULL)
  ELSE IF r.error
       THEN Throws(OrElse(r.message, MsgFetchAccountsFailed), NULL)
       ELSE Returns(NULL, IF r.hasAccounts THEN r.accounts ELSE <<>>, NULL)

(* ------------------------------------------------------------------- GET *)
\* Mutant: the outer catch block logs in again when the first login failed
\* with a message that mentions the session.
GET_catch_RetriesLogin(f, errorMessage) ==
  IF f.pc = "login1" /\ MentionsSession(errorMessage)
  THEN [f EXCEPT !.pc = "login2", !.resp = NoResponse, !.forceNew = TRUE,
                 !.request = proxyFetch(loginUrl),
                 !.loginCalls = IF f.observed THEN @ + 1 ELSE @]
  ELSE Responded(f, Failure(errorMessage))

\* The outer catch block of GET: the failure response.
GET_catch(f, errorMessage) == Responded(f, Failure(errorMessage))

\* Mutant: the success response carries the credential it was fetched with.
GET_success_WithSession(f, accounts) ==
  Responded(f, [session |-> f.session] @@ Success(MapAccounts(accounts)))

\* The success response of GET, on the first attempt and on the retry.
GET_success(f, accounts) == Responded(f, Success(MapAccounts(accounts)))

\* Mutant: the retry re-enters the inner try block, so it can retry again.
getAccounts_enter_Again(f, sess, retry) ==
  [f EXCEPT !.pc = "accounts1", !.session = sess, !.resp = NoResponse,
            !.request = proxyFetch(accountsUrl(sess)),
            !.forceNew = FALSE, !.entry = NULL, !.fetchCalls = @ + 1]

\* getAccounts(session) from its entry to the proxyFetch of get-my-accounts.json.
getAccounts_enter(f, sess, retry) ==
  [f EXCEPT !.pc = IF retry THEN "accounts2" ELSE "accounts1",
            !.session = sess, !.resp = NoResponse,
            !.request = proxyFetch(accountsUrl(sess)), !.forceNew = FALSE,
            !.entry = NULL, !.fetchCalls = @ + 1]

\* proxyFetch of login.json: the handler awaits the answer.
login_fetch(f, forceNew, cache, pc) ==
  [f EXCEPT !.pc = pc, !.resp = NoResponse, !.forceNew = forceNew,
            !.request = proxyFetch(loginUrl), !.entry = cache,
            !.overtaken = FALSE,
            !.loginCalls = IF f.observed THEN @ + 1 ELSE @]

\* GET after it entered login(forceNew) with the cache as given.  retry tells
\* the first login (false) from the one in the inner catch block (true).
GET_login(f, cache, retry) ==
  LET e == login_enter(retry, cache)
      g == Logged(f, Finished("login", retry, NULL, cache, FALSE, NoResponse, e))
  IN  CASE e.kind = "return" -> getAccounts_enter(g, e.session, retry)
        [] e.kind = "throw" -> GET_catch(g, e.message)
        [] e.kind = "await" ->
             login_fetch(f, retry, cache, IF retry THEN "login2" ELSE "login1")

\* Mutant: the message is not lower-cased before the test.
RetriesOn_CaseSensitive(errorMsg) == includes(errorMsg, SessionWord)

\* Mutant: every failure of the first fetch is retried.
RetriesOn_Always(errorMsg) == TRUE

\* Mutant: a body that is not JSON is taken for an expired session too.
RetriesOn_NotJson(errorMsg) == MentionsSession(errorMsg) \/ errorMsg = MsgNotJson

\* Whether the inner catch block retries on this message.
RetriesOn(errorMsg) == MentionsSession(errorMsg)

\* GET from the login answer a to its next await or its response: the cache
\* it leaves and its frame.
GET_afterLogin(f, a, cache) ==
  LET retry == f.pc = "login2"
      r == login_resume(a, cache)
      g == Logged(f, Finished("login", f.forceNew, NULL, f.entry, TRUE, a, r))
  IN  [cache |-> r.cache,
       frame |-> IF r.kind = "return"
                 THEN getAccounts_enter(g, r.session, retry)
                 ELSE GET_catch(g, r.message)]

\* GET from the accounts answer a to its next await or its response: the
\* cache it leaves and its frame.
GET_afterAccounts(f, a, cache) ==
  LET r == getAccounts_resume(a)
      g == Logged(f, Finished("accounts", FALSE, f.session, NULL, TRUE, a, r))
  IN  IF r.kind = "return"
      THEN [cache |-> cache, frame |-> GET_success(g, r.accounts)]
      ELSE IF f.pc = "accounts1" /\ RetriesOn(r.message)
           THEN [cache |-> NULL, frame |-> GET_login(g, NULL, TRUE)]
           ELSE [cache |-> cache, frame |-> GET_catch(g, r.message)]

\* A request starts: GET runs login(false) up to its first await.  The
\* handlers beside the observed one are interchangeable, so a new request
\* among them takes the first free frame.
GET_begin(p) ==
  /\ call[p].pc = "idle"
  /\ \A q \in Calls : (Observed < q /\ q < p) => call[q].pc # "idle"
  /\ call' = [call EXCEPT ![p] = GET_login(call[p], cachedSession, FALSE)]
  /\ UNCHANGED <<cachedSession, email, password, httpsProxy, httpProxy, issued, twin>>

\* The login answer is processed: login() finishes and GET goes on to
\* getAccounts or to its outer catch block.  An answer that grants a credential
\* has arrived before (Upstream_login); any other answer is chosen here, as
\* nothing observes it before it is processed.  n is the one outcome of the
\* step.
GET_loginDone(p) ==
  /\ call[p].pc \in {"login1", "login2"}
  /\ call[p].resp # Hung
  /\ \E a \in (IF call[p].resp # NoResponse THEN {call[p].resp} ELSE LoginRefusals) :
       \E n \in {GET_afterLogin(call[p], a, cachedSession)} :
           /\ cachedSession' = n.cache
           /\ call' = [call EXCEPT ![p] = n.frame]
  /\ UNCHANGED <<email, password, httpsProxy, httpProxy, issued, twin>>

\* The accounts answer is processed: getAccounts() finishes and GET responds,
\* retries with a fresh login, or goes to its outer catch block.
GET_accountsDone(p) ==
  /\ call[p].pc \in {"accounts1", "accounts2"}
  /\ call[p].resp # Hung
  /\ \E a \in AccountsResponses :
       \E n \in {GET_afterAccounts(call[p], a, cachedSession)} :
           /\ cachedSession' = n.cache
           /\ call' = [call EXCEPT ![p] = n.frame]
  /\ UNCHANGED <<email, password, httpsProxy, httpProxy, issued, twin>>

\* The caller has the response; the handler is over.
GET_return(p) ==
  /\ call[p].pc = "done"
  /\ call' = [call EXCEPT ![p] = IdleCall(call[p].observed)]
  /\ UNCHANGED <<cachedSession, email, password, httpsProxy, httpProxy, issued, twin>>

(* ---------------------------------------------------------------- DELETE *)
\* Mutant: DELETE answers without touching the cache.
DELETE_handler_KeepsCache(cache) ==
  [cache |-> cache,
   result |-> [success |-> TRUE, message |-> MsgCacheCleared, status |-> 200]]

\* DELETE(), entered with the cache as given: the value it leaves in
\* cachedSession and its response.
DELETE_handler(cache) ==
  [cache |-> NULL,
   result |-> [success |-> TRUE, message |-> MsgCacheCleared, status |-> 200]]

DELETE ==
  /\ cachedSession' = DELETE_handler(cachedSession).cache
  /\ UNCHANGED <<email, password, httpsProxy, httpProxy, call, issued, twin>>

\* DELETE, with a mark on every login that is awaiting its answer.
DELETE_overtaking ==
  /\ cachedSession' = DELETE_handler(cachedSession).cache
  /\ call' = [p \in Frames |->
               IF call[p].pc \in {"login1", "login2"}
               THEN [call[p] EXCEPT !.overtaken = TRUE]
               ELSE call[p]]
  /\ UNCHANGED <<email, password, httpsProxy, httpProxy, issued, twin>>

(* -------------------------------------------------------------- upstream *)
\* The upstream accepts a login and issues the next credential; the answer
\* is on its way to the handler.
Upstream_login(p) ==
  /\ call[p].pc \in {"login1", "login2", "acquire"}
  /\ call[p].resp = NoResponse
  /\ issued < MaxSessions
  /\ call' = [call EXCEPT ![p].resp = LoginGrant(issued + 1)]
  /\ issued' = issued + 1
  /\ UNCHANGED <<cachedSession, email, password, httpsProxy, httpProxy, twin>>

\* The upstream accepts the connection of a handler's request and never
\* completes the response.
Upstream_hang(p) ==
  /\ call[p].pc \in {"login1", "login2", "accounts1", "accounts2"}
  /\ call[p].resp = NoResponse
  /\ call' = [call EXCEPT ![p].resp = Hung]
  /\ UNCHANGED <<cachedSession, email, password, httpsProxy, httpProxy, issued, twin>>

(* ------------------------------------------------------- login() alone *)
\* login(forceNew) called on its own, one call after the other, from any
\* state of the cache.  The frame ends in "acquired" with the credential in
\* session or the Error in result; its log holds the record of the call
\* before, if there was one, and then the record of this call.
Acquire_end(f, out) ==
  [f EXCEPT !.pc = "acquired", !.request = NoRequest, !.resp = NoResponse,
            !.session = out.session,
            !.forceNew = FALSE, !.entry = NULL,
            !.result = IF out.kind = "throw" THEN Failure(out.message)
                       ELSE NoResult]

Acquire_begin(forceNew) ==
  /\ call[Alone].pc \in {"idle", "acquired", "invalidated"}
  /\ LET before == call[Alone].log
         f == [IdleCall(TRUE) EXCEPT
                 !.log = IF before = <<>> THEN <<>> ELSE <<before[Len(before)]>>]
         e == login_enter(forceNew, cachedSession)
         g == Logged(f, Finished("login", forceNew, NULL, cachedSession, FALSE,
                                 NoResponse, e))
     IN  call' = [call EXCEPT ![Alone] =
                    IF e.kind = "await"
                    THEN login_fetch(f, forceNew, cachedSession, "acquire")
                    ELSE Acquire_end(g, e)]
  /\ UNCHANGED <<cachedSession, email, password, httpsProxy, httpProxy, issued, twin>>

Acquire_done ==
  /\ call[Alone].pc = "acquire"
  /\ \E a \in (IF call[Alone].resp # NoResponse THEN {call[Alone].resp}
               ELSE LoginRefusals) :
       LET f == call[Alone]
           r == login_resume(a, cachedSession)
           g == Logged(f, Finished("login", f.forceNew, NULL, f.entry, TRUE, a, r))
       IN  /\ cachedSession' = r.cache
           /\ call' = [call EXCEPT ![Alone] = Acquire_end(g, r)]
  /\ UNCHANGED <<email, password, httpsProxy, httpProxy, issued, twin>>

(* ------------------------------------------------------- DELETE alone *)
\* DELETE called on its own, between the calls of login() alone.  The frame
\* ends in "invalidated" with DELETE's response in result; its log holds the
\* record of the call before, if there was one, and then the record of this
\* call.
Invalidate ==
  /\ call[Alone].pc \in {"idle", "acquired", "invalidated"}
  /\ LET before == call[Alone].log
         d == DELETE_handler(cachedSession)
         rec == Finished("DELETE", FALSE, NULL, cachedSession, FALSE, NoResponse,
                         Returns(NULL, <<>>, d.cache))
     IN  /\ cachedSession' = d.cache
         /\ call' = [call EXCEPT ![Alone] =
                       [IdleCall(TRUE) EXCEPT
                          !.pc = "invalidated", !.result = d.result,
                          !.log = IF before = <<>> THEN <<rec>>
                                  ELSE <<before[Len(before)], rec>>]]
  /\ UNCHANGED <<email, password, httpsProxy, httpProxy, issued, twin>>

(* -------------------------------------------------------- specifications *)
\* The route: overlapping GET handlers, DELETE and the upstream.
Next ==
  \/ \E p \in Calls : GET_begin(p)
  \/ \E p \in Calls : Upstream_login(p)
  \/ \E p \in Calls : GET_loginDone(p)
  \/ \E p \in Calls : GET_accountsDone(p)
  \/ \E p \in Calls : GET_return(p)
  \/ DELETE

Spec == Init /\ [][Next]_vars

\* login(forceNew) alone, with either argument and from every cache state.
NextAcquire ==
  \/ \E forceNew \in BOOLEAN : Acquire_begin(forceNew)
  \/ Upstream_login(Alone)
  \/ Acquire_done
  \/ DELETE

SpecAcquire == Init /\ [][NextAcquire]_vars

\* One GET at a time and DELETE, in a deployment with or without a proxy.
NextTransport ==
  \/ GET_begin(Observed)
  \/ Upstream_login(Observed)
  \/ GET_loginDone(Observed)
  \/ GET_accountsDone(Observed)
  \/ GET_return(Observed)
  \/ DELETE

SpecTransport == InitTransport /\ [][NextTransport]_vars

\* Calls that do not overlap: one GET at a time, and DELETE only between two
\* GETs.
DELETE_between ==
  /\ call[Observed].pc = "idle"
  /\ DELETE

NextSequential ==
  \/ GET_begin(Observed)
  \/ Upstream_login(Observed)
  \/ GET_loginDone(Observed)
  \/ GET_accountsDone(Observed)
  \/ GET_return(Observed)
  \/ DELETE_between

SpecSequential == Init /\ [][NextSequential]_vars

\* One GET at a time, and DELETE at any moment of it.
NextOvertake ==
  \/ GET_begin(Observed)
  \/ Upstream_login(Observed)
  \/ GET_loginDone(Observed)
  \/ GET_accountsDone(Observed)
  \/ GET_return(Observed)
  \/ DELETE_overtaking

SpecOvertake == Init /\ [][NextOvertake]_vars

\* DELETE alone, from every cache state login() can leave.
NextInvalidate ==
  \/ \E forceNew \in BOOLEAN : Acquire_begin(forceNew)
  \/ Upstream_login(Alone)
  \/ Acquire_done
  \/ Invalidate

SpecInvalidate == Init /\ [][NextInvalidate]_vars

\* The route with an upstream that may leave requests unanswered.  The event
\* loop runs a handler's continuation once its answer is there, and every
\* request the upstream does not leave hanging is answered.
NextHang ==
  \/ Next
  \/ \E p \in Calls : Upstream_hang(p)

Fairness ==
  \A p \in Calls :
    /\ WF_vars(GET_loginDone(p))
    /\ WF_vars(GET_accountsDone(p))

SpecHang == Init /\ [][NextHang]_vars /\ Fairness

(* ------------------------------------------------------------- twin runs *)
\* Two runs of the route side by side.  They get the same requests at the
\* same moments and the same answers from the upstream, except that the
\* credential a login is granted in the second run is any credential at all.
\* The first run is the program's state; the second is kept in twin.
Twin_GET_begin(p) ==
  /\ call[p].pc = "idle" /\ twin.call[p].pc = "idle"
  /\ \A q \in Calls : (Observed < q /\ q < p) => call[q].pc # "idle"
  /\ call' = [call EXCEPT ![p] = GET_login(call[p], cachedSession, FALSE)]
  /\ twin' = [twin EXCEPT !.call[p] =
                GET_login(twin.call[p], twin.cachedSession, FALSE)]
  /\ UNCHANGED <<cachedSession, email, password, httpsProxy, httpProxy, issued>>

Twin_Upstream_login(p) ==
  /\ call[p].pc \in {"login1", "login2"}
  /\ twin.call[p].pc \in {"login1", "login2"}
  /\ call[p].resp = NoResponse /\ twin.call[p].resp = NoResponse
  /\ issued < MaxSessions
  /\ call' = [call EXCEPT ![p].resp = LoginGrant(issued + 1)]
  /\ \E t \in Tokens :
       twin' = [twin EXCEPT !.call[p].resp =
                  [LoginGrant(issued + 1) EXCEPT !.session = t]]
  /\ issued' = issued + 1
  /\ UNCHANGED <<cachedSession, email, password, httpsProxy, httpProxy>>

Twin_GET_loginDone(p) ==
  /\ call[p].pc \in {"login1", "login2"}
  /\ twin.call[p].pc \in {"login1", "login2"}
  /\ (call[p].resp = NoResponse) <=> (twin.call[p].resp = NoResponse)
  /\ \E a \in (IF call[p].resp # NoResponse THEN {call[p].resp} ELSE LoginRefusals) :
       LET b == IF twin.call[p].resp # NoResponse THEN twin.call[p].resp ELSE a
       IN  \E n \in {GET_afterLogin(call[p], a, cachedSession)},
              m \in {GET_afterLogin(twin.call[p], b, twin.cachedSession)} :
           /\ cachedSession' = n.cache
           /\ call' = [call EXCEPT ![p] = n.frame]
           /\ twin' = [twin EXCEPT !.cachedSession = m.cache, !.call[p] = m.frame]
  /\ UNCHANGED <<email, password, httpsProxy, httpProxy, issued>>

Twin_GET_accountsDone(p) ==
  /\ call[p].pc \in {"accounts1", "accounts2"}
  /\ twin.call[p].pc \in {"accounts1", "accounts2"}
  /\ \E a \in AccountsResponses :
       \E n \in {GET_afterAccounts(call[p], a, cachedSession)},
          m \in {GET_afterAccounts(twin.call[p], a, twin.cachedSession)} :
           /\ cachedSession' = n.cache
           /\ call' = [call EXCEPT ![p] = n.frame]
           /\ twin' = [twin EXCEPT !.cachedSession = m.cache, !.call[p] = m.frame]
  /\ UNCHANGED <<email, password, httpsProxy, httpProxy, issued>>

Twin_GET_return(p) ==
  /\ call[p].pc = "done" /\ twin.call[p].pc = "done"
  /\ call' = [call EXCEPT ![p] = IdleCall(call[p].observed)]
  /\ twin' = [twin EXCEPT !.call[p] = IdleCall(twin.call[p].observed)]
  /\ UNCHANGED <<cachedSession, email, password, httpsProxy, httpProxy, issued>>

\* DELETE in both runs; the first run's response is kept in the frame of the
\* handler that runs alone, the second run's in twin.
Twin_DELETE ==
  LET d == DELETE_handler(cachedSession)
      e == DELETE_handler(twin.cachedSession)
  IN  /\ cachedSession' = d.cache
      /\ call' = [call EXCEPT ![Alone] =
                    [IdleCall(TRUE) EXCEPT !.pc = "invalidated",
                                           !.result = d.result]]
      /\ twin' = [twin EXCEPT !.cachedSession = e.cache,
                              !.invalidated = e.result]
      /\ UNCHANGED <<email, password, httpsProxy, httpProxy, issued>>

NextTwin ==
  \/ \E p \in Calls : Twin_GET_begin(p)
  \/ \E p \in Calls : Twin_Upstream_login(p)
  \/ \E p \in Calls : Twin_GET_loginDone(p)
  \/ \E p \in Calls : Twin_GET_accountsDone(p)
  \/ \E p \in Calls : Twin_GET_return(p)
  \/ Twin_DELETE

SpecTwin == InitTwin /\ [][NextTwin]_vars

(* ---------------------------------------------------------------- claims *)
\* "contains session in any letter case", stated on the characters themselves.
SessionAnyCase(m) ==
  \E i \in 1..(Len(m) - 6) :
    /\ m[i] \in {"s", "S"}     /\ m[i + 1] \in {"e", "E"}
    /\ m[i + 2] \in {"s", "S"} /\ m[i + 3] \in {"s", "S"}
    /\ m[i + 4] \in {"i", "I"} /\ m[i + 5] \in {"o", "O"}
    /\ m[i + 6] \in {"n", "N"}

\* The number of network calls the records of a handler's log stand for.
NetworkCalls(log, op) ==
  Cardinality({i \in 1..Len(log) : log[i].op = op /\ log[i].network})

\* The response GET owes its caller for an attempt that ended as rec did.
OutcomeOf(rec) ==
  IF rec.kind = "return" THEN Success(MapAccounts(rec.accounts))
  ELSE Failure(rec.message)

\* The first accounts fetch of the handler in frame f has failed, with message m.
FirstFetchFailed(f) ==
  /\ Len(f.log) >= 2
  /\ f.log[2].op = "accounts"
  /\ f.log[2].kind = "throw"

\* C1 as stated: a GET whose first accounts fetch fails with a message that
\* contains "session" in any letter case makes exactly one more login network
\* call and then exactly one more accounts fetch with the new credential, and
\* its result is the outcome of that second fetch.
C1_AsStated ==
  \A p \in Calls :
    LET f == call[p] IN
    (f.pc = "done" /\ FirstFetchFailed(f) /\ SessionAnyCase(f.log[2].message))
    => /\ Len(f.log) = 4
       /\ f.log[3].op = "login" /\ f.log[3].network
       /\ f.log[4].op = "accounts" /\ f.log[4].sent = f.log[3].session
       /\ f.loginCalls = NetworkCalls(SubSeq(f.log, 1, 2), "login") + 1
       /\ f.fetchCalls = 2
       /\ f.result = OutcomeOf(f.log[4])

\* C1 as amended: such a GET makes exactly one more login network call; when
\* that login succeeds it makes exactly one more accounts fetch, with the new
\* credential, and its result is the outcome of that fetch; when that login
\* fails it makes no further fetch and its result is the login's failure.
C1_RetryOnce ==
  \A p \in Calls :
    LET f == call[p] IN
    (f.pc = "done" /\ FirstFetchFailed(f) /\ SessionAnyCase(f.log[2].message))
    => /\ Len(f.log) >= 3
       /\ f.log[3].op = "login" /\ f.log[3].forceNew /\ f.log[3].network
       /\ f.loginCalls = NetworkCalls(SubSeq(f.log, 1, 2), "login") + 1
       /\ IF f.log[3].kind = "return"
          THEN /\ Len(f.log) = 4
               /\ f.log[4].op = "accounts"
               /\ f.log[4].sent = f.log[3].session
               /\ f.log[3].session = f.log[3].answer.session
               /\ f.fetchCalls = 2
               /\ f.result = OutcomeOf(f.log[4])
          ELSE /\ Len(f.log) = 3
               /\ f.fetchCalls = 1
               /\ f.result = Failure(f.log[3].message)

\* A GET whose first fetch failed with "INVALID SESSION." has retried and
\* answered with the second fetch's accounts.
C1_Witness ==
  \E p \in Calls :
    LET f == call[p] IN
    /\ f.pc = "done" /\ Len(f.log) = 4
    /\ f.log[2].message = MsgSessionUpper
    /\ f.log[4].kind = "return" /\ f.result.success
    /\ Len(f.result.accounts) = 2

\* C2: a GET whose first accounts fetch fails with a message that does not
\* mention session makes no further login and no further fetch, and returns
\* that first failure.
C2_NoRetry ==
  \A p \in Calls :
    LET f == call[p] IN
    (FirstFetchFailed(f) /\ ~SessionAnyCase(f.log[2].message))
    => /\ f.pc = "done"
       /\ Len(f.log) = 2
       /\ f.loginCalls = NetworkCalls(SubSeq(f.log, 1, 1), "login")
       /\ f.fetchCalls = 1
       /\ f.result = Failure(f.log[2].message)

\* A GET has returned "Access denied" from its first fetch.
C2_Witness ==
  \E p \in Calls :
    LET f == call[p] IN
    /\ f.pc = "done" /\ FirstFetchFailed(f)
    /\ f.log[2].message = MsgDenied /\ f.result = Failure(MsgDenied)

\* C3: a GET never makes more than two login network calls and two accounts
\* fetches; when its second fetch fails, also with a session message, it
\* returns that failure and is over.
C3_BoundedRetry ==
  \A p \in Calls :
    LET f == call[p] IN
    /\ f.loginCalls <= 2 /\ f.fetchCalls <= 2
    /\ Len(f.log) <= 4
    /\ NetworkCalls(f.log, "login") <= f.loginCalls
    /\ NetworkCalls(f.log, "accounts") <= f.fetchCalls
    /\ (Len(f.log) = 4 /\ f.log[4].kind = "throw")
       => /\ f.pc = "done"
          /\ f.result = Failure(f.log[4].message)

\* A GET has returned the session failure of its second fetch.
C3_Witness ==
  \E p \in Calls :
    LET f == call[p] IN
    /\ f.pc = "done" /\ Len(f.log) = 4 /\ f.fetchCalls = 2
    /\ f.log[4].op = "accounts" /\ f.log[4].kind = "throw"
    /\ SessionAnyCase(f.log[4].message)
    /\ f.loginCalls = 2

\* login() alone has finished a call; Last is the record of that call and
\* Before the record of the call before it.
Acquired == call[Alone].pc = "acquired"
Last == call[Alone].log[Len(call[Alone].log)]
Before == call[Alone].log[1]
Consecutive == Acquired /\ Len(call[Alone].log) = 2

\* C4, its general part: login(false) entered with a credential in the cache
\* returns that credential, makes no network call and leaves the cache alone.
C4_CachedIsReturned ==
  LET f == call[Alone] IN
  /\ (f.pc = "acquire" /\ ~f.forceNew) => f.entry \in {NULL, ""}
  /\ (Acquired /\ ~Last.forceNew /\ Last.before \notin {NULL, ""})
     => /\ ~Last.network /\ f.loginCalls = 0
        /\ Last.kind = "return"
        /\ f.session = Last.before
        /\ Last.after = Last.before

\* A login whose answer has the error flag unset and a session field.
SessionFieldPresent(rec) ==
  /\ rec.op = "login" /\ rec.network
  /\ rec.answer.kind = "payload" /\ ~rec.answer.error
  /\ rec.answer.session # UNDEFINED

\* C4 as stated: after a login whose answer has the error flag unset and a
\* session field present, the next login(false), entered with the cache as
\* that login left it, returns that credential without a network call; and
\* login(false) with a cached credential returns the cached value without a
\* network call.
C4_AsStated ==
  /\ C4_CachedIsReturned
  /\ (/\ Consecutive /\ SessionFieldPresent(Before)
      /\ ~Last.forceNew /\ Last.before = Before.after)
     => /\ ~Last.network /\ call[Alone].loginCalls = 0
        /\ Last.kind = "return"
        /\ Last.session = Before.answer.session

\* C4 as amended: the same, for a session field that is present and not the
\* empty string.
C4_CachedLogin ==
  /\ C4_CachedIsReturned
  /\ (/\ Consecutive /\ SessionFieldPresent(Before)
      /\ Before.answer.session # ""
      /\ ~Last.forceNew /\ Last.before = Before.after)
     => /\ Before.kind = "return" /\ Before.session = Before.answer.session
        /\ ~Last.network /\ call[Alone].loginCalls = 0
        /\ Last.kind = "return"
        /\ Last.session = Before.session
        /\ call[Alone].session = Before.session

\* login(false) logged in over the network, and the next login(false) got the
\* same credential from the cache with no network call.
C4_Witness ==
  /\ Consecutive
  /\ ~Before.forceNew /\ Before.network /\ Before.session \in Tokens
  /\ ~Last.forceNew /\ ~Last.network /\ call[Alone].loginCalls = 0
  /\ call[Alone].session = Before.session

\* Username and secret are both configured.
Configured == email \notin {UNDEFINED, ""} /\ password \notin {UNDEFINED, ""}

\* C5: login(true) makes exactly one login network call whether the cache is
\* empty or holds a credential, and on a successful answer the cache holds
\* the new credential.
C5_ForcedLogin ==
  LET f == call[Alone] IN
  /\ (Configured /\ f.pc = "acquire" /\ f.forceNew) => f.loginCalls = 1
  /\ (Configured /\ Acquired /\ Last.forceNew)
     => /\ Last.network /\ f.loginCalls = 1
        /\ (Last.kind = "return")
           => /\ Last.answer.session \in Tokens
              /\ f.session = Last.answer.session
              /\ Last.after = Last.answer.session

\* login(true) was entered with a credential in the cache and replaced it.
C5_Witness ==
  /\ Acquired /\ Last.forceNew
  /\ Last.before \in Tokens
  /\ Last.network /\ Last.kind = "return" /\ call[Alone].loginCalls = 1
  /\ Last.after \in Tokens /\ Last.after # Last.before

\* C6: with the username or the secret missing, login fails with the
\* configuration error and no network call, and GET returns that error without
\* a fetch.
C6_NotConfigured ==
  ~Configured =>
    /\ \A p \in Calls :
         /\ call[p].pc \in {"idle", "done"} /\ call[p].fetchCalls = 0
         /\ cachedSession = NULL
    /\ LET f == call[Observed] IN
       /\ f.loginCalls = 0
       /\ f.pc = "done"
          => /\ Len(f.log) = 1
             /\ f.log[1].op = "login" /\ ~f.log[1].network
             /\ f.log[1].kind = "throw" /\ f.log[1].message = MsgNotConfigured
             /\ f.result = Failure(MsgNotConfigured)

\* A GET has returned the configuration error: the secret is the empty string.
C6_Witness ==
  /\ email = "set" /\ password = ""
  /\ call[Observed].pc = "done"
  /\ call[Observed].result = Failure(MsgNotConfigured)

\* A login that got a JSON payload with the error flag set or no session field.
Refused(rec) ==
  /\ rec.op = "login" /\ rec.network
  /\ rec.answer.kind = "payload"
  /\ (rec.answer.error \/ rec.answer.session = UNDEFINED)

\* C7: a login whose answer is a JSON payload with the error flag set or with
\* no session field leaves the cache empty and fails with the upstream's
\* message, or with 'Login failed' when there is none.
C7_RefusedLogin ==
  \A p \in Calls :
    \A i \in 1..Len(call[p].log) :
      LET rec == call[p].log[i] IN
      Refused(rec)
      => /\ rec.after = NULL
         /\ rec.kind = "throw"
         /\ rec.message = IF rec.answer.message = MsgEmpty THEN MsgLoginFailed
                          ELSE rec.answer.message
         /\ i = Len(call[p].log) /\ call[p].pc = "done"
         /\ call[p].result = Failure(rec.message)

\* A login was refused with the error flag set and a message, after the
\* upstream had granted a credential to another handler.
C7_Witness ==
  LET f == call[Observed] IN
  /\ Len(f.log) = 1 /\ Refused(f.log[1])
  /\ f.log[1].answer.message = MsgSessionInvalid
  /\ f.result = Failure(MsgSessionInvalid)
  /\ issued >= 1

\* C8 as stated: a login that ends in a bot-challenge page, a body that is not
\* JSON or a transport failure leaves the cache empty, in every interleaving.
C8_AsStated ==
  \A p \in Calls :
    \A i \in 1..Len(call[p].log) :
      LET rec == call[p].log[i] IN
      (/\ rec.op = "login" /\ rec.network
       /\ rec.answer.kind \in {"challenge", "malformed", "transport"})
      => rec.after = NULL

\* C9 as stated: at most one login network call is in flight at any time.
C9_AsStated ==
  Cardinality({p \in Calls : call[p].pc \in {"login1", "login2"}}) <= 1

\* C10 as stated: once the overlapping GETs that forced a refresh have all
\* returned, the cached credential, if any, is the one the upstream issued
\* last.  A GET makes its second fetch only after its forced login succeeded.
C10_AsStated ==
  (\A p \in Calls : call[p].pc = "done" /\ call[p].fetchCalls = 2)
  => cachedSession \in {NULL, Token(issued)}

\* C11 as stated: every GET that has started eventually responds, also when
\* the upstream never answers one of its requests.
C11_AsStated ==
  \A p \in Calls :
    (call[p].pc \notin {"idle", "done"}) ~> (call[p].pc = "done")

\* The record of the call the observed GET finished last.
LastCall == call[Observed].log[Len(call[Observed].log)]

\* C12 as stated: a GET that fails on a bot-challenge page reports it
\* differently from a GET that fails on any other unreadable page or on a
\* transport failure.
C12_AsStated ==
  LET f == call[Observed] IN
  (f.pc = "done" /\ f.log # <<>> /\ LastCall.network
   /\ LastCall.answer.kind = "challenge")
  => \A other \in {Malformed, TransportFailure} :
       f.result # Failure(ThrownMessage(other))

\* An answer that is a JSON payload with nothing wrong in it.
CleanAnswer(rec) ==
  /\ rec.network /\ rec.answer.kind = "payload" /\ ~rec.answer.error
  /\ rec.op = "login" => Truthy(rec.answer.session)

\* C13: whatever the upstream answers to the login and the accounts requests,
\* a GET that is over has returned either a success with the whole account
\* list of a clean accounts answer, or a failure with the message of the call
\* that failed; a call that throws ends the handler, except the first fetch
\* that is retried.
C13_SuccessOrFailure ==
  LET f == call[Observed] IN
  /\ f.pc \in {"idle", "login1", "accounts1", "login2", "accounts2", "done"}
  /\ (f.pc # "done") => f.result = NoResult
  /\ (f.pc # "done" /\ f.log # <<>> /\ LastCall.kind = "throw")
     => /\ f.pc = "login2" /\ Len(f.log) = 2
        /\ LastCall.op = "accounts" /\ SessionAnyCase(LastCall.message)
  /\ (f.pc = "done")
     => /\ f.log # <<>>
        /\ IF LastCall.kind = "return"
           THEN /\ LastCall.op = "accounts" /\ CleanAnswer(LastCall)
                /\ f.result.success /\ f.result.status = 200
                /\ "error" \notin DOMAIN f.result
                /\ Len(f.result.accounts) = Len(LastCall.answer.accounts)
           ELSE /\ ~f.result.success /\ f.result.status = 500
                /\ "accounts" \notin DOMAIN f.result
                /\ f.result.error = LastCall.message
                /\ f.result.error # MsgEmpty
                /\ ~CleanAnswer(LastCall)

\* A GET whose retry got a body that is not JSON has returned that failure.
C13_Witness ==
  LET f == call[Observed] IN
  /\ f.pc = "done" /\ Len(f.log) = 4
  /\ LastCall.answer = Malformed
  /\ f.result = Failure(MsgNotJson)

\* DELETE alone has finished; Last is its record.
Invalidated == call[Alone].pc = "invalidated"

\* C14: DELETE leaves the cache empty whatever it held, makes no network
\* call and reports success; a second DELETE right after it ends in the same
\* state with the same response.
C14_Invalidate ==
  LET f == call[Alone] IN
  Invalidated
  => /\ cachedSession = NULL
     /\ Last.op = "DELETE" /\ Last.after = NULL
     /\ ~Last.network /\ f.loginCalls = 0 /\ f.fetchCalls = 0
     /\ f.resp = NoResponse
     /\ f.result.success /\ f.result.status = 200
     /\ (Len(f.log) = 2 /\ Before.op = "DELETE")
        => /\ Last.before = Before.after
           /\ Last.after = Before.after
           /\ Last = [Before EXCEPT !.before = Last.before]

\* DELETE was called with a credential in the cache, and then once more.
C14_Witness ==
  /\ Invalidated /\ Len(call[Alone].log) = 2
  /\ Before.op = "DELETE" /\ Before.before \in Tokens
  /\ Last.op = "DELETE" /\ Last.before = NULL
  /\ cachedSession = NULL /\ call[Alone].result.success

\* C15: a GET whose first login fails, whatever the failure and also with a
\* message that mentions the session, returns that failure at once: no
\* accounts fetch and no second login.
C15_FirstLoginFails ==
  LET f == call[Observed] IN
  (f.log # <<>> /\ f.log[1].op = "login" /\ f.log[1].kind = "throw")
  => /\ f.pc = "done" /\ Len(f.log) = 1
     /\ f.fetchCalls = 0
     /\ f.loginCalls = IF f.log[1].network THEN 1 ELSE 0
     /\ f.result = Failure(f.log[1].message)

\* The first login of a GET was refused with "Session is invalid", and the
\* GET returned that message after one login call and no fetch.
C15_Witness ==
  LET f == call[Observed] IN
  /\ f.pc = "done" /\ Len(f.log) = 1
  /\ f.log[1].op = "login" /\ ~f.log[1].forceNew /\ f.log[1].network
  /\ f.log[1].kind = "throw" /\ SessionAnyCase(f.log[1].message)
  /\ f.loginCalls = 1 /\ f.fetchCalls = 0
  /\ f.result = Failure(MsgSessionInvalid)

\* C16: an accounts payload with the error flag unset and an empty account
\* list makes the GET a success with an empty sequence, on the first attempt
\* and on the retry after a session failure.
C16_EmptyIsSuccess ==
  LET f == call[Observed] IN
  (/\ f.log # <<>> /\ LastCall.op = "accounts"
   /\ LastCall.answer.kind = "payload" /\ ~LastCall.answer.error
   /\ LastCall.answer.hasAccounts /\ LastCall.answer.accounts = <<>>)
  => /\ f.pc = "done" /\ Len(f.log) \in {2, 4}
     /\ LastCall.kind = "return" /\ LastCall.accounts = <<>>
     /\ f.result = Success(<<>>)
     /\ f.result.success /\ f.result.status = 200

\* The first fetch failed with "Session is invalid", the retry got an empty
\* list, and the GET returned a successful empty sequence.
C16_Witness ==
  LET f == call[Observed] IN
  /\ f.pc = "done" /\ Len(f.log) = 4
  /\ f.log[2].answer = AccountsPayload(TRUE, MsgSessionInvalid, FALSE, <<>>)
  /\ f.log[4].answer = AccountsPayload(FALSE, MsgEmpty, TRUE, <<>>)
  /\ f.result.success /\ f.result.accounts = <<>>

\* C17: the credential goes through unchanged: a successful login caches and
\* returns exactly the session string of its answer, a login served from the
\* cache returns exactly the cached string, and every accounts request
\* carries exactly the string the login before it returned.
C17_CredentialUnchanged ==
  LET f == call[Observed] IN
  /\ cachedSession \in {NULL} \cup {Token(n) : n \in 1..issued}
  /\ \A i \in 1..Len(f.log) :
       LET rec == f.log[i] IN
       /\ (rec.op = "login" /\ rec.kind = "return")
          => /\ rec.after = rec.session
             /\ rec.session = IF rec.network THEN rec.answer.session
                              ELSE rec.before
       /\ (rec.op = "accounts")
          => /\ i > 1 /\ f.log[i - 1].op = "login"
             /\ f.log[i - 1].kind = "return"
             /\ rec.request.path = "/get-my-accounts.json"
             /\ rec.request.session = f.log[i - 1].session
  /\ (f.pc \in {"accounts1", "accounts2"})
     => /\ LastCall.op = "login" /\ LastCall.kind = "return"
        /\ f.request.session = LastCall.session

\* A GET logged in, cached the session string of the answer and has fetched
\* the accounts with that string; another GET has taken it from the cache and
\* sent it as it is.
C17_Witness ==
  LET f == call[Observed] IN
  /\ Len(f.log) = 2
  /\ f.log[1].op = "login" /\ ~f.log[1].network
  /\ f.log[1].before \in Tokens
  /\ f.log[2].op = "accounts"
  /\ f.log[2].request.session = f.log[1].before
  /\ f.log[2].request.session = cachedSession

\* Whether a proxy endpoint is configured.
ProxyConfigured == Truthy(httpsProxy) \/ Truthy(httpProxy)
ExpectedTransport == IF ProxyConfigured THEN "proxy" ELSE "direct"

\* C18: with a proxy endpoint configured every login and accounts request is
\* sent through the proxy, and without one every request is sent directly;
\* each call of login() and getAccounts() sends one request, so a send that
\* fails makes the call fail and is not repeated over another transport.
C18_ProxyTransport ==
  LET f == call[Observed] IN
  /\ IF f.pc \in {"login1", "login2", "accounts1", "accounts2"}
     THEN f.request.via = ExpectedTransport
     ELSE f.request = NoRequest
  /\ \A i \in 1..Len(f.log) :
       LET rec == f.log[i] IN
       IF rec.network
       THEN /\ rec.request.via = ExpectedTransport
            /\ (rec.answer.kind = "transport")
               => /\ rec.kind = "throw" /\ rec.message = MsgFetchFailed
                  /\ i = Len(f.log) /\ f.pc = "done"
                  /\ f.result = Failure(MsgFetchFailed)
       ELSE rec.request = NoRequest
  /\ f.loginCalls = NetworkCalls(f.log, "login")
                    + (IF f.pc \in {"login1", "login2"} THEN 1 ELSE 0)
  /\ f.fetchCalls = NetworkCalls(f.log, "accounts")
                    + (IF f.pc \in {"accounts1", "accounts2"} THEN 1 ELSE 0)

\* With the endpoint in HTTP_PROXY only, the login went through the proxy and
\* the accounts request, sent through the proxy, failed in transport: the GET
\* has failed after one fetch.
C18_Witness ==
  LET f == call[Observed] IN
  /\ ~Truthy(httpsProxy) /\ Truthy(httpProxy)
  /\ f.pc = "done" /\ Len(f.log) = 2
  /\ f.log[1].network /\ f.log[1].request.via = "proxy"
  /\ f.log[2].request.via = "proxy"
  /\ f.log[2].answer = TransportFailure
  /\ f.fetchCalls = 1 /\ f.result = Failure(MsgFetchFailed)

\* The thirteen fields of an account in GET's response.
ExposedFields ==
  {"id", "name", "accountId", "balance", "equity", "profit", "gain", "daily",
   "monthly", "drawdown", "currency", "demo", "lastUpdateDate"}

\* C19: a successful GET returns as many accounts as the upstream's list has,
\* in the same order, each with exactly the thirteen exposed fields and their
\* upstream values; the same on the first attempt and on the retry.
C19_Mapping ==
  LET f == call[Observed] IN
  (f.pc = "done" /\ f.result.success)
  => /\ Len(f.log) \in {2, 4} /\ LastCall.op = "accounts"
     /\ LET upstream == LastCall.answer.accounts
            exposed == f.result.accounts
        IN  /\ Len(exposed) = Len(upstream)
            /\ \A i \in 1..Len(upstream) :
                 /\ DOMAIN exposed[i] = ExposedFields
                 /\ \A k \in ExposedFields : exposed[i][k] = upstream[i][k]

\* The retry of a GET got the accounts 2 and 1, in that order, and the GET
\* returned them in that order.
C19_Witness ==
  LET f == call[Observed] IN
  /\ f.pc = "done" /\ Len(f.log) = 4 /\ f.result.success
  /\ Len(f.result.accounts) = 2
  /\ f.result.accounts[1].id = 2 /\ f.result.accounts[2].id = 1
  /\ f.result.accounts[1].balance = LastCall.answer.accounts[1].balance

\* C20: the step in which an accounts fetch fails with a message that does
\* not mention the session leaves the cache as it is and ends the GET; a GET
\* that starts with a credential in the cache goes to its fetch with that
\* credential and no login call; and the cache loses a credential only in a
\* DELETE, in a login that fails or in the retry after a session failure.
C20_KeepsCredential ==
  [][LET f == call[Observed]
         g == call'[Observed]
     IN  /\ (/\ f.pc \in {"accounts1", "accounts2"}
             /\ Len(g.log) = Len(f.log) + 1
             /\ g.log[Len(g.log)].kind = "throw"
             /\ ~SessionAnyCase(g.log[Len(g.log)].message))
            => /\ cachedSession' = cachedSession
               /\ g.pc = "done"
               /\ g.result = Failure(g.log[Len(g.log)].message)
         /\ (f.pc = "idle" /\ g.pc # "idle" /\ Truthy(cachedSession))
            => /\ g.pc = "accounts1" /\ g.loginCalls = 0
               /\ g.request.session = cachedSession
               /\ cachedSession' = cachedSession
         /\ (cachedSession # NULL /\ cachedSession' = NULL)
            => \/ call' = call
               \/ \E p \in Calls :
                    \/ /\ call[p].pc \in {"login1", "login2"}
                       /\ call'[p].pc = "done"
                    \/ /\ call[p].pc = "accounts1"
                       /\ call'[p].pc = "login2"]_vars

\* The accounts fetch of a GET got a body that is not JSON, the GET has
\* failed, and the credential it sent is still the cached one.
C20_Witness ==
  LET f == call[Observed] IN
  /\ f.pc = "done" /\ Len(f.log) = 2
  /\ f.log[2].op = "accounts" /\ f.log[2].answer = Malformed
  /\ f.result = Failure(MsgNotJson)
  /\ cachedSession \in Tokens
  /\ cachedSession = f.log[2].request.session

\* The session strings of the login answers the upstream has sent with the
\* error flag unset.
GrantedSessions == {LoginGrant(n).session : n \in 1..issued}

\* C22: under every interleaving of GETs and DELETEs the cache is empty or
\* holds a non-empty session string of a login answer with the error flag
\* unset; never the session field of a refused login, never another value.
C22_CacheIsGranted ==
  /\ cachedSession # NULL
     => /\ cachedSession \in GrantedSessions
        /\ cachedSession \notin {"", UNDEFINED, "refused"}
  /\ \A n \in 1..issued : ~LoginGrant(n).error /\ Truthy(LoginGrant(n).session)

\* A login of the observed GET was refused with a session field in the
\* answer, and the cache holds a credential another login was granted.
C22_Witness ==
  LET f == call[Observed] IN
  /\ Len(f.log) = 1 /\ f.log[1].network
  /\ f.log[1].answer.error /\ f.log[1].answer.session = "refused"
  /\ cachedSession \in Tokens

\* C23: when calls do not overlap, a GET that returns success leaves in the
\* cache exactly the credential its last accounts fetch carried; after a
\* retry that is the credential of the forced login, not the one the first
\* fetch carried.
C23_CacheAfterSuccess ==
  LET f == call[Observed] IN
  (f.pc = "done" /\ f.result.success)
  => /\ LastCall.op = "accounts"
     /\ cachedSession = LastCall.request.session
     /\ Truthy(cachedSession)
     /\ (Len(f.log) = 4)
        => /\ f.log[3].network /\ f.log[3].forceNew
           /\ cachedSession = f.log[3].answer.session
           /\ cachedSession # f.log[2].request.session

\* A GET took a credential from the cache, was told that the session is
\* invalid, logged in again and succeeded: the cache holds the new credential.
C23_Witness ==
  LET f == call[Observed] IN
  /\ f.pc = "done" /\ f.result.success /\ Len(f.log) = 4
  /\ ~f.log[1].network /\ f.log[1].before \in Tokens
  /\ f.log[2].request.session = f.log[1].before
  /\ cachedSession = f.log[4].request.session
  /\ cachedSession # f.log[1].before

\* C24 as stated: the cache never holds the credential of a login that was
\* awaiting its answer when a DELETE returned.
C24_AsStated ==
  \A p \in Calls :
    (/\ call[p].overtaken
     /\ call[p].pc \notin {"login1", "login2"}
     /\ Truthy(call[p].session))
    => cachedSession # call[p].session

\* C25: the response of a GET has one of two shapes: success true, the
\* accounts, no error and status 200; or success false, a non-empty error
\* message, no accounts and status 500.  Every call that throws gives the
\* second shape, and an upstream payload with an empty message gives the
\* default message of the call that got it.
C25_ResponseShape ==
  LET f == call[Observed] IN
  (f.pc = "done")
  => /\ f.log # <<>>
     /\ IF LastCall.kind = "return"
        THEN /\ DOMAIN f.result = {"success", "accounts", "timestamp", "status"}
             /\ f.result.success = TRUE /\ f.result.status = 200
        ELSE /\ DOMAIN f.result = {"success", "error", "timestamp", "status"}
             /\ f.result.success = FALSE /\ f.result.status = 500
             /\ f.result.error # MsgEmpty
             /\ (LastCall.network /\ LastCall.answer.kind = "payload")
                => f.result.error =
                     IF LastCall.answer.message # MsgEmpty
                     THEN LastCall.answer.message
                     ELSE IF LastCall.op = "login" THEN MsgLoginFailed
                          ELSE MsgFetchAccountsFailed

\* The accounts answer had the error flag set and no message: the GET has
\* failed with 'Failed to fetch accounts' and status 500.
C25_Witness ==
  LET f == call[Observed] IN
  /\ f.pc = "done" /\ Len(f.log) = 2
  /\ f.log[2].answer = AccountsPayload(TRUE, MsgEmpty, FALSE, <<>>)
  /\ f.result.error = MsgFetchAccountsFailed
  /\ f.result.status = 500 /\ "accounts" \notin DOMAIN f.result

\* C21: two runs that differ only in the credentials the upstream has
\* issued give their callers the same: every handler is at the same point in
\* both, the response of the GET is the same, and so is DELETE's.
C21_SameResults ==
  /\ \A p \in Calls : twin.call[p].pc = call[p].pc
  /\ twin.call[Observed].result = call[Observed].result
  /\ twin.invalidated = call[Alone].result

\* Both runs have answered a DELETE and then a GET with the accounts, which
\* they fetched with different credentials.
C21_Witness ==
  /\ call[Observed].pc = "done" /\ call[Observed].result.success
  /\ call[Observed].result.accounts # <<>>
  /\ Truthy(call[Observed].session) /\ Truthy(twin.call[Observed].session)
  /\ call[Observed].session # twin.call[Observed].session
  /\ cachedSession # twin.cachedSession
  /\ twin.invalidated.success

====
